---- MODULE Spec2Model ----
(***************************************************************************)
(* Model of openapi3/schema_validation_settings.go: the option-built       *)
(* schemaValidationSettings object, its construction by                    *)
(* newSchemaValidationSettings, the schemaResolve fallback, and the        *)
(* consumers of its hooks (the sync.Once-guarded defaultsSet callback and  *)
(* the customizeMessageError formatter).                                   *)
(***************************************************************************)
EXTENDS Naturals, Sequences, FiniteSets

\* ------------------------------------------------------------------ bounds
\* Longest option list handed to newSchemaValidationSettings.
MaxOpts == 3
\* Total number of "notify defaults applied" invocations in one behaviour.
MaxNotify == 3

\* ------------------------------------------------------------- value domains
\* The nil function value / nil *Schema.
Nil == "nil"

\* Callbacks a caller may hand to DefaultsSet.
Callbacks == {"cbA", "cbB"}
\* Functions a caller may hand to SetSchemaErrorMessageCustomizer.
Customizers == {"customSome", "customAll"}
\* Functions a caller may hand to SetCustomizeSchemaResolve.
Resolvers == {"resolvePet", "resolveAny"}

\* Reference strings of a SchemaRef (Ref) and embedded schemas (Value).
Refs == {"", "#/components/schemas/Pet", "#/components/schemas/Cat"}
Schemas == {"InlineSchema", "PetSchema", "AnySchema"}
SchemaRefs == [Value : {Nil, "InlineSchema"}, Ref : Refs]

\* Validation errors handed to the error formatter.
SchemaErrors == {"errRequired", "errType"}

\* What a resolver function returns for a reference string.
CallResolver(f, ref) ==
    CASE f = "resolvePet" ->
           IF ref = "#/components/schemas/Pet" THEN "PetSchema" ELSE Nil
      [] f = "resolveAny" -> "AnySchema"

\* What a customizer function returns for an error.
CallCustomizer(f, err) ==
    CASE f = "customSome" -> IF err = "errType" THEN "custom: type" ELSE ""
      [] f = "customAll" ->
           IF err = "errType" THEN "all: type" ELSE "all: required"

\* ------------------------------------------------------------ the settings
\* The zero value &schemaValidationSettings{} (without the sync.Once).
ZeroSettings ==
    [failfast |-> FALSE,
     multiError |-> FALSE,
     asreq |-> FALSE,
     asrep |-> FALSE,
     formatValidationEnabled |-> FALSE,
     unknownPropertyValidationEnabled |-> FALSE,
     patternValidationDisabled |-> FALSE,
     readOnlyValidationDisabled |-> FALSE,
     writeOnlyValidationDisabled |-> FALSE,
     defaultsSet |-> Nil,
     customizeMessageError |-> Nil,
     customizeSchemaResolve |-> Nil]

\* sync.Mutex state of an unlocked mutex (no holder).
Unlocked == 0

\* The zero value of the onceSettingDefaults field: not done, mutex free.
ZeroOnce == [done |-> FALSE, m |-> Unlocked]

\* ---------------------------------------------------------- option closures
\* Each operator is the closure the option constructor returns, applied to s.
SetCustomizeSchemaResolveFirstWins(resolve, s) ==
    IF s.customizeSchemaResolve = Nil
    THEN [s EXCEPT !.customizeSchemaResolve = resolve]
    ELSE s
SetCustomizeSchemaResolve(resolve, s) ==
    [s EXCEPT !.customizeSchemaResolve = resolve]

FailFastClearsMultiError(s) ==
    [s EXCEPT !.failfast = TRUE, !.multiError = FALSE]
FailFast(s) == [s EXCEPT !.failfast = TRUE]

MultiErrors(s) == [s EXCEPT !.multiError = TRUE]

VisitAsRequest(s) == [s EXCEPT !.asreq = TRUE, !.asrep = FALSE]

VisitAsResponseKeepsRequest(s) == [s EXCEPT !.asrep = TRUE]
VisitAsResponse(s) == [s EXCEPT !.asreq = FALSE, !.asrep = TRUE]

EnableUnknownPropertyValidation(s) ==
    [s EXCEPT !.unknownPropertyValidationEnabled = TRUE]

EnableFormatValidation(s) == [s EXCEPT !.formatValidationEnabled = TRUE]

DisablePatternValidation(s) == [s EXCEPT !.patternValidationDisabled = TRUE]

DisableReadOnlyValidation(s) == [s EXCEPT !.readOnlyValidationDisabled = TRUE]

DisableWriteOnlyValidation(s) ==
    [s EXCEPT !.writeOnlyValidationDisabled = TRUE]

DefaultsSet(f, s) == [s EXCEPT !.defaultsSet = f]

SetSchemaErrorMessageCustomizerDropped(f, s) == s
SetSchemaErrorMessageCustomizer(f, s) ==
    [s EXCEPT !.customizeMessageError = f]

\* A SchemaValidationOption value: which constructor made it, with which
\* function argument (Nil for the constructors that take none).
Option(kind, arg) == [kind |-> kind, arg |-> arg]

ToggleKinds ==
    {"FailFast", "MultiErrors", "EnableUnknownPropertyValidation",
     "EnableFormatValidation", "DisablePatternValidation",
     "DisableReadOnlyValidation", "DisableWriteOnlyValidation"}

DirectionKinds == {"VisitAsRequest", "VisitAsResponse"}

Options ==
    {Option(k, Nil) : k \in ToggleKinds \cup DirectionKinds}
      \cup {Option("DefaultsSet", f) : f \in Callbacks \cup {Nil}}
      \cup {Option("SetSchemaErrorMessageCustomizer", f) :
               f \in Customizers \cup {Nil}}
      \cup {Option("SetCustomizeSchemaResolve", f) : f \in Resolvers \cup {Nil}}

\* opt(settings): running one option closure on the settings.
ApplyOption(opt, s) ==
    CASE opt.kind = "FailFast" -> FailFast(s)
      [] opt.kind = "MultiErrors" -> MultiErrors(s)
      [] opt.kind = "VisitAsRequest" -> VisitAsRequest(s)
      [] opt.kind = "VisitAsResponse" -> VisitAsResponse(s)
      [] opt.kind = "EnableUnknownPropertyValidation" ->
           EnableUnknownPropertyValidation(s)
      [] opt.kind = "EnableFormatValidation" -> EnableFormatValidation(s)
      [] opt.kind = "DisablePatternValidation" -> DisablePatternValidation(s)
      [] opt.kind = "DisableReadOnlyValidation" -> DisableReadOnlyValidation(s)
      [] opt.kind = "DisableWriteOnlyValidation" ->
           DisableWriteOnlyValidation(s)
      [] opt.kind = "DefaultsSet" -> DefaultsSet(opt.arg, s)
      [] opt.kind = "SetSchemaErrorMessageCustomizer" ->
           SetSchemaErrorMessageCustomizer(opt.arg, s)
      [] opt.kind = "SetCustomizeSchemaResolve" ->
           SetCustomizeSchemaResolve(opt.arg, s)

\* The loop of newSchemaValidationSettings over opts[1..n].
RECURSIVE ApplyAll(_, _)
ApplyAll(os, n) ==
    IF n = 0 THEN ZeroSettings ELSE ApplyOption(os[n], ApplyAll(os, n - 1))

\* newSchemaValidationSettings(opts...): the settings it returns.
newSchemaValidationSettings(os) == ApplyAll(os, Len(os))

\* ------------------------------------------------------------ consumption
schemaResolveResolverFirst(s, schemaRef) ==
    IF s.customizeSchemaResolve # Nil /\ schemaRef.Ref # ""
    THEN [value |-> CallResolver(s.customizeSchemaResolve, schemaRef.Ref),
          invoked |-> <<[f |-> s.customizeSchemaResolve,
                         arg |-> schemaRef.Ref]>>]
    ELSE [value |-> schemaRef.Value, invoked |-> <<>>]

schemaResolveEmptyRef(s, schemaRef) ==
    IF schemaRef.Value # Nil \/ s.customizeSchemaResolve = Nil
    THEN [value |-> schemaRef.Value, invoked |-> <<>>]
    ELSE [value |-> CallResolver(s.customizeSchemaResolve, schemaRef.Ref),
          invoked |-> <<[f |-> s.customizeSchemaResolve,
                         arg |-> schemaRef.Ref]>>]

\* schemaResolve: the value returned and the resolver invocations made.
schemaResolve(s, schemaRef) ==
    IF schemaRef.Value # Nil \/ s.customizeSchemaResolve = Nil
    THEN [value |-> schemaRef.Value, invoked |-> <<>>]
    ELSE IF schemaRef.Ref # ""
         THEN [value |-> CallResolver(s.customizeSchemaResolve, schemaRef.Ref),
               invoked |-> <<[f |-> s.customizeSchemaResolve,
                              arg |-> schemaRef.Ref]>>]
         ELSE [value |-> schemaRef.Value, invoked |-> <<>>]

\* The validator's own rendering of an error.
DefaultMessage(err) ==
    IF err = "errType" THEN "default: type" ELSE "default: required"

\* Formatting an error: the customizer's non-empty string, else the default.
FormatError(s, err) ==
    IF s.customizeMessageError # Nil
    THEN LET msg == CallCustomizer(s.customizeMessageError, err)
         IN  [value |-> IF msg # "" THEN msg ELSE DefaultMessage(err),
              invoked |-> <<[f |-> s.customizeMessageError, arg |-> err]>>]
    ELSE [value |-> DefaultMessage(err), invoked |-> <<>>]

\* ------------------------------------------------------------------ state
\* Policy instances that can be allocated, and the validator's goroutines.
Policies == {"p", "q"}
NumThreads == 2
Threads == 1 .. NumThreads

VARIABLES
    opts,      \* newSchemaValidationSettings call: the options applied so far
    settings,  \* newSchemaValidationSettings call: the local `settings`
    returned,  \* newSchemaValidationSettings call: has it returned
    alive,     \* the policy instances that have been constructed
    args,      \* per instance: the option list it was constructed from
    policy,    \* per instance: its schemaValidationSettings fields
    once,      \* per instance: its onceSettingDefaults (done flag, mutex holder)
    pc,        \* per goroutine: its position inside "notify defaults applied"
    cur,       \* per goroutine: the instance it is notifying, Nil when idle
    runs,      \* per instance: the callbacks executed so far, in order
    started,   \* number of "notify defaults applied" invocations begun
    finished,  \* per instance: number of such invocations that returned
    last       \* the most recent schemaResolve / format-error call and result

vars ==
    <<opts, settings, returned, alive, args, policy, once, pc, cur, runs,
      started, finished, last>>

buildVars == <<opts, settings, returned>>
heapVars == <<alive, args, policy>>
threadVars == <<once, pc, cur, runs, started, finished>>

NoCall ==
    [op |-> "none", p |-> Nil, schemaRef |-> [Value |-> Nil, Ref |-> ""],
     err |-> Nil, value |-> Nil, invoked |-> <<>>]

\* ------------------------------------------------------------ construction
\* One iteration of `for _, opt := range opts { opt(settings) }`.
ApplyNext(opt) ==
    /\ ~returned
    /\ Len(opts) < MaxOpts
    /\ opts' = Append(opts, opt)
    /\ settings' = ApplyOption(opt, settings)
    /\ UNCHANGED <<returned, heapVars, threadVars, last>>

OptFailFast == ApplyNext(Option("FailFast", Nil))
OptMultiErrors == ApplyNext(Option("MultiErrors", Nil))
OptVisitAsRequest == ApplyNext(Option("VisitAsRequest", Nil))
OptVisitAsResponse == ApplyNext(Option("VisitAsResponse", Nil))
OptEnableUnknownPropertyValidation ==
    ApplyNext(Option("EnableUnknownPropertyValidation", Nil))
OptEnableFormatValidation == ApplyNext(Option("EnableFormatValidation", Nil))
OptDisablePatternValidation ==
    ApplyNext(Option("DisablePatternValidation", Nil))
OptDisableReadOnlyValidation ==
    ApplyNext(Option("DisableReadOnlyValidation", Nil))
OptDisableWriteOnlyValidation ==
    ApplyNext(Option("DisableWriteOnlyValidation", Nil))
OptDefaultsSet ==
    \E f \in Callbacks \cup {Nil} : ApplyNext(Option("DefaultsSet", f))
OptSetSchemaErrorMessageCustomizer ==
    \E f \in Customizers \cup {Nil} :
        ApplyNext(Option("SetSchemaErrorMessageCustomizer", f))
OptSetCustomizeSchemaResolve ==
    \E f \in Resolvers \cup {Nil} :
        ApplyNext(Option("SetCustomizeSchemaResolve", f))

\* The instance a construction allocates: a fresh one.
NewInstance == CHOOSE p \in Policies : p \notin alive

\* `return settings`: the caller now holds a new instance with a zero Once.
Return ==
    /\ ~returned
    /\ returned' = TRUE
    /\ alive' = alive \cup {NewInstance}
    /\ args' = [args EXCEPT ![NewInstance] = opts]
    /\ policy' = [policy EXCEPT ![NewInstance] = settings]
    /\ once' = [once EXCEPT ![NewInstance] = ZeroOnce]
    /\ UNCHANGED <<opts, settings, pc, cur, runs, started, finished, last>>

\* ------------------------------------------------- schemaResolve / format
\* A caller runs s.schemaResolve(schemaRef) on instance p.
SchemaResolve(p, schemaRef) ==
    /\ p \in alive
    /\ LET r == schemaResolve(policy[p], schemaRef)
       IN  last' = [op |-> "schemaResolve", p |-> p, schemaRef |-> schemaRef,
                    err |-> Nil, value |-> r.value, invoked |-> r.invoked]
    /\ UNCHANGED <<buildVars, heapVars, threadVars>>

\* A caller formats the error err under instance p.
FormatErrorMessage(p, err) ==
    /\ p \in alive
    /\ LET r == FormatError(policy[p], err)
       IN  last' = [op |-> "formatError", p |-> p,
                    schemaRef |-> NoCall.schemaRef, err |-> err,
                    value |-> r.value, invoked |-> r.invoked]
    /\ UNCHANGED <<buildVars, heapVars, threadVars>>

\* ------------------------------------------------- notify defaults applied
\* The sync.Once an instance's notifications go through: its own field.
SharedOnceOf(p) == "p"
OnceOf(p) == p

\* The call returns to the validator.
Finish(t, p) ==
    /\ pc' = [pc EXCEPT ![t] = "idle"]
    /\ cur' = [cur EXCEPT ![t] = Nil]
    /\ finished' = [finished EXCEPT ![p] = @ + 1]

\* if settings.defaultsSet != nil { settings.onceSettingDefaults.Do(...) }
NotifyDefaults(t, p) ==
    /\ pc[t] = "idle"
    /\ p \in alive
    /\ started < MaxNotify
    /\ started' = started + 1
    /\ IF policy[p].defaultsSet = Nil
       THEN Finish(t, p)
       ELSE /\ pc' = [pc EXCEPT ![t] = "Do"]
            /\ cur' = [cur EXCEPT ![t] = p]
            /\ UNCHANGED finished
    /\ UNCHANGED <<buildVars, heapVars, once, runs, last>>

\* Once.Do: if o.done.Load() == 0 { o.doSlow(f) }
OnceDo(t) ==
    /\ pc[t] = "Do"
    /\ IF once[OnceOf(cur[t])].done
       THEN Finish(t, cur[t])
       ELSE /\ pc' = [pc EXCEPT ![t] = "doSlowLock"]
            /\ UNCHANGED <<cur, finished>>
    /\ UNCHANGED <<buildVars, heapVars, once, runs, started, last>>

\* Once.doSlow: o.m.Lock(), which waits while the mutex is held.
OnceLock(t) ==
    /\ pc[t] = "doSlowLock"
    /\ once[OnceOf(cur[t])].m = Unlocked
    /\ once' = [once EXCEPT ![OnceOf(cur[t])].m = t]
    /\ pc' = [pc EXCEPT ![t] = "doSlowCheck"]
    /\ UNCHANGED <<buildVars, heapVars, cur, runs, started, finished, last>>

OnceCheckSkipped(t) ==
    /\ pc[t] = "doSlowCheck"
    /\ pc' = [pc EXCEPT ![t] = "callF"]
    /\ UNCHANGED <<buildVars, heapVars, once, cur, runs, started, finished,
                   last>>

\* Once.doSlow: if o.done.Load() == 0, under the mutex.
OnceCheck(t) ==
    /\ pc[t] = "doSlowCheck"
    /\ pc' = [pc EXCEPT ![t] = IF once[OnceOf(cur[t])].done THEN "unlock"
                                ELSE "callF"]
    /\ UNCHANGED <<buildVars, heapVars, once, cur, runs, started, finished,
                   last>>

OnceCallFClearsCallback(t) ==
    /\ pc[t] = "callF"
    /\ runs' = [runs EXCEPT ![cur[t]] = Append(@, policy[cur[t]].defaultsSet)]
    /\ policy' = [policy EXCEPT ![cur[t]].defaultsSet = Nil]
    /\ pc' = [pc EXCEPT ![t] = "store"]
    /\ UNCHANGED <<buildVars, alive, args, once, cur, started, finished, last>>

\* Once.doSlow: f(), the defaultsSet callback executes.
OnceCallF(t) ==
    /\ pc[t] = "callF"
    /\ runs' = [runs EXCEPT ![cur[t]] = Append(@, policy[cur[t]].defaultsSet)]
    /\ pc' = [pc EXCEPT ![t] = "store"]
    /\ UNCHANGED <<buildVars, heapVars, once, cur, started, finished, last>>

\* Once.doSlow: the deferred o.done.Store(1).
OnceStore(t) ==
    /\ pc[t] = "store"
    /\ once' = [once EXCEPT ![OnceOf(cur[t])].done = TRUE]
    /\ pc' = [pc EXCEPT ![t] = "unlock"]
    /\ UNCHANGED <<buildVars, heapVars, cur, runs, started, finished, last>>

OnceUnlockKeepsMutex(t) ==
    /\ pc[t] = "unlock"
    /\ Finish(t, cur[t])
    /\ UNCHANGED <<buildVars, heapVars, once, runs, started, last>>

\* Once.doSlow: the deferred o.m.Unlock(); Do returns.
OnceUnlock(t) ==
    /\ pc[t] = "unlock"
    /\ once' = [once EXCEPT ![OnceOf(cur[t])].m = Unlocked]
    /\ Finish(t, cur[t])
    /\ UNCHANGED <<buildVars, heapVars, runs, started, last>>

\* ---------------------------------------------------------- specifications
IdleThreads ==
    /\ pc = [t \in Threads |-> "idle"]
    /\ cur = [t \in Threads |-> Nil]
    /\ runs = [p \in Policies |-> <<>>]
    /\ started = 0
    /\ finished = [p \in Policies |-> 0]
    /\ once = [p \in Policies |-> ZeroOnce]
    /\ last = NoCall

\* A call of newSchemaValidationSettings begins; nothing is constructed yet.
InitBuild ==
    /\ opts = <<>>
    /\ settings = ZeroSettings
    /\ returned = FALSE
    /\ alive = {}
    /\ args = [p \in Policies |-> <<>>]
    /\ policy = [p \in Policies |-> ZeroSettings]
    /\ IdleThreads

\* The input with which the constructing caller then tries each hook.
ProbeRef == [Value |-> Nil, Ref |-> "#/components/schemas/Pet"]
ProbeErr == "errType"

\* Construct one policy option by option, then try its hooks once.
NextBuild ==
    \/ OptFailFast
    \/ OptMultiErrors
    \/ OptVisitAsRequest
    \/ OptVisitAsResponse
    \/ OptEnableUnknownPropertyValidation
    \/ OptEnableFormatValidation
    \/ OptDisablePatternValidation
    \/ OptDisableReadOnlyValidation
    \/ OptDisableWriteOnlyValidation
    \/ OptDefaultsSet
    \/ OptSetSchemaErrorMessageCustomizer
    \/ OptSetCustomizeSchemaResolve
    \/ Return
    \/ \E p \in Policies : SchemaResolve(p, ProbeRef)
    \/ \E p \in Policies : FormatErrorMessage(p, ProbeErr)

SpecBuild == InitBuild /\ [][NextBuild]_vars

\* Option lists made of hook options only.
HookOptions == {opt \in Options : opt.kind \notin ToggleKinds \cup DirectionKinds}
HookOptLists == UNION {[1 .. n -> HookOptions] : n \in 0 .. MaxOpts}

\* One instance was constructed from a list of hook options.
InitCall ==
    /\ args \in [Policies -> HookOptLists]
    /\ args["q"] = <<>>
    /\ alive = {"p"}
    /\ policy = [p \in Policies |->
                   IF p \in alive THEN newSchemaValidationSettings(args[p])
                   ELSE ZeroSettings]
    /\ opts = args["p"]
    /\ settings = policy["p"]
    /\ returned = TRUE
    /\ IdleThreads

\* A single caller resolves schemas and formats errors with it.
NextCall ==
    \/ \E p \in Policies, schemaRef \in SchemaRefs : SchemaResolve(p, schemaRef)
    \/ \E p \in Policies, err \in SchemaErrors : FormatErrorMessage(p, err)

SpecCall == InitCall /\ [][NextCall]_vars

\* Option lists the shared policies of the concurrent runs are built from.
SharedOptLists ==
    {<<>>,
     <<Option("FailFast", Nil), Option("VisitAsResponse", Nil),
       Option("DefaultsSet", "cbA"),
       Option("SetCustomizeSchemaResolve", "resolvePet"),
       Option("SetSchemaErrorMessageCustomizer", "customSome")>>,
     <<Option("DefaultsSet", "cbA"), Option("MultiErrors", Nil),
       Option("DefaultsSet", "cbB")>>}

\* Both instances were constructed; the validator's goroutines share them.
Init ==
    /\ opts = <<>>
    /\ settings = ZeroSettings
    /\ returned = TRUE
    /\ alive = Policies
    /\ args \in [Policies -> SharedOptLists]
    /\ policy = [p \in Policies |-> newSchemaValidationSettings(args[p])]
    /\ IdleThreads

Next ==
    \/ \E t \in Threads, p \in Policies : NotifyDefaults(t, p)
    \/ \E t \in Threads : OnceDo(t)
    \/ \E t \in Threads : OnceLock(t)
    \/ \E t \in Threads : OnceCheck(t)
    \/ \E t \in Threads : OnceCallF(t)
    \/ \E t \in Threads : OnceStore(t)
    \/ \E t \in Threads : OnceUnlock(t)
    \/ \E p \in Policies, schemaRef \in SchemaRefs : SchemaResolve(p, schemaRef)
    \/ \E p \in Policies, err \in SchemaErrors : FormatErrorMessage(p, err)

Spec == Init /\ [][Next]_vars

\* ------------------------------------------------------ claim vocabulary
\* Positions of the options of the given kinds in an option list.
Occurrences(os, kinds) == {i \in 1 .. Len(os) : os[i].kind \in kinds}

Latest(idx) == CHOOSE i \in idx : \A j \in idx : j <= i

\* The kind of the last option among `kinds`, Nil when there is none.
LastKind(os, kinds) ==
    IF Occurrences(os, kinds) = {} THEN Nil
    ELSE os[Latest(Occurrences(os, kinds))].kind

\* The function given by the last option of `kind`, Nil when there is none.
LastArg(os, kind) ==
    IF Occurrences(os, {kind}) = {} THEN Nil
    ELSE os[Latest(Occurrences(os, {kind}))].arg

\* The settings field each option kind is documented to set.
OwnedFields(kind) ==
    CASE kind = "FailFast" -> {"failfast"}
      [] kind = "MultiErrors" -> {"multiError"}
      [] kind = "EnableUnknownPropertyValidation" ->
           {"unknownPropertyValidationEnabled"}
      [] kind = "EnableFormatValidation" -> {"formatValidationEnabled"}
      [] kind = "DisablePatternValidation" -> {"patternValidationDisabled"}
      [] kind = "DisableReadOnlyValidation" -> {"readOnlyValidationDisabled"}
      [] kind = "DisableWriteOnlyValidation" -> {"writeOnlyValidationDisabled"}
      [] kind \in DirectionKinds -> {"asreq", "asrep"}
      [] kind = "DefaultsSet" -> {"defaultsSet"}
      [] kind = "SetSchemaErrorMessageCustomizer" -> {"customizeMessageError"}
      [] kind = "SetCustomizeSchemaResolve" -> {"customizeSchemaResolve"}

\* The callback, customizer and resolver an instance was configured with.
ConfiguredCallback(p) == LastArg(args[p], "DefaultsSet")
ConfiguredCustomizer(p) == LastArg(args[p], "SetSchemaErrorMessageCustomizer")
ConfiguredResolver(p) == LastArg(args[p], "SetCustomizeSchemaResolve")

\* Goroutine t is inside Once.doSlow holding the mutex.
InGuard(t) == pc[t] \in {"doSlowCheck", "callF", "store", "unlock"}

\* Goroutine t is waiting in o.m.Lock() because the mutex is held.
Waiting(t) ==
    /\ pc[t] = "doSlowLock"
    /\ once[OnceOf(cur[t])].m # Unlocked

\* ------------------------------------------------------------ construction
\* The direction flags s are those the option list os calls for.
DirectionOf(s, os) ==
    /\ ~(s.asreq /\ s.asrep)
    /\ s.asreq <=> LastKind(os, DirectionKinds) = "VisitAsRequest"
    /\ s.asrep <=> LastKind(os, DirectionKinds) = "VisitAsResponse"
    /\ (~s.asreq /\ ~s.asrep) <=> Occurrences(os, DirectionKinds) = {}

\* C3: for every option sequence the policy never has both asreq and asrep
\* set; the direction is that of the last VisitAsRequest / VisitAsResponse
\* option, and it is unspecified (both false) iff neither option occurs.
\* Stated of the settings under construction after every prefix and of every
\* constructed instance.
C3_DirectionExclusive ==
    /\ DirectionOf(settings, opts)
    /\ \A p \in alive : DirectionOf(policy[p], args[p])

\* A policy built from VisitAsRequest followed later by VisitAsResponse.
C3_Witness ==
    /\ returned
    /\ \E p \in alive :
         /\ \E i, j \in 1 .. Len(args[p]) :
              /\ i < j
              /\ args[p][i].kind = "VisitAsRequest"
              /\ args[p][j].kind = "VisitAsResponse"
         /\ policy[p].asrep
         /\ ~policy[p].asreq

\* Each toggle of s is set iff its own option occurs in os.
TogglesOf(s, os) ==
    \A k \in ToggleKinds :
        \A f \in OwnedFields(k) : s[f] <=> Occurrences(os, {k}) # {}

\* C4: every boolean toggle is true iff its own option occurs at least once
\* in the option sequence, and applying any option to the settings reached
\* after any option prefix leaves every field other than its own (or its own
\* mutually exclusive pair) unchanged.
C4_TogglesIndependent ==
    /\ TogglesOf(settings, opts)
    /\ \A p \in alive : TogglesOf(policy[p], args[p])
    /\ ~returned =>
         \A opt \in Options :
             LET applied == ApplyOption(opt, settings)
             IN  \A f \in DOMAIN settings \ OwnedFields(opt.kind) :
                     applied[f] = settings[f]

\* A policy built with both FailFast and MultiErrors holds both flags.
C4_Witness ==
    /\ returned
    /\ \E p \in alive :
         /\ Occurrences(args[p], {"FailFast"}) # {}
         /\ Occurrences(args[p], {"MultiErrors"}) # {}
         /\ policy[p].failfast
         /\ policy[p].multiError
         /\ ~policy[p].formatValidationEnabled

\* The hook fields of s hold the functions of the last occurrences in os.
HooksOf(s, os) ==
    /\ s.defaultsSet = LastArg(os, "DefaultsSet")
    /\ s.customizeMessageError = LastArg(os, "SetSchemaErrorMessageCustomizer")
    /\ s.customizeSchemaResolve = LastArg(os, "SetCustomizeSchemaResolve")

\* C8: construction applies the options in order, last write wins per hook
\* field: the policy holds only the function of the last occurrence, a later
\* call invokes no earlier one, and the construction can return after any
\* option sequence, the empty one included.
C8_LastWriteWins ==
    /\ HooksOf(settings, opts)
    /\ \A p \in alive : HooksOf(policy[p], args[p])
    /\ ~returned => ENABLED Return
    /\ returned => \E p \in alive : args[p] = opts
    /\ \A i \in 1 .. Len(last.invoked) :
         last.invoked[i].f =
            IF last.op = "schemaResolve" THEN ConfiguredResolver(last.p)
            ELSE ConfiguredCustomizer(last.p)

\* A policy given the same hook twice whose later function was then invoked.
C8_Witness ==
    /\ returned
    /\ \E p \in alive :
         /\ \E i, j \in 1 .. Len(args[p]) :
              /\ i < j
              /\ args[p][i] = Option("SetCustomizeSchemaResolve", "resolvePet")
              /\ args[p][j] = Option("SetCustomizeSchemaResolve", "resolveAny")
         /\ policy[p].customizeSchemaResolve = "resolveAny"
         /\ last.p = p
         /\ Len(last.invoked) = 1

\* ------------------------------------------------- schemaResolve / format
\* C5: schemaResolve returns the embedded schema when it is present;
\* otherwise nil when no resolver is configured or the reference string is
\* empty; otherwise exactly what the configured resolver returns for the
\* reference string (which may itself be nil).
C5_ResolveResult ==
    last.op = "schemaResolve" =>
        last.value =
            IF last.schemaRef.Value # Nil THEN last.schemaRef.Value
            ELSE IF ConfiguredResolver(last.p) = Nil \/ last.schemaRef.Ref = ""
                 THEN Nil
                 ELSE CallResolver(ConfiguredResolver(last.p),
                                   last.schemaRef.Ref)

\* A reference-only value resolved through the configured resolver, and one
\* the resolver itself leaves unresolved.
C5_Witness ==
    /\ last.op = "schemaResolve"
    /\ last.schemaRef.Value = Nil
    /\ ConfiguredResolver(last.p) = "resolvePet"
    /\ \/ /\ last.schemaRef.Ref = "#/components/schemas/Pet"
          /\ last.value = "PetSchema"
       \/ /\ last.schemaRef.Ref = "#/components/schemas/Cat"
          /\ last.value = Nil

\* C6: during one schemaResolve call the configured resolver is invoked iff
\* the embedded schema is absent and the reference string is non-empty, and
\* then exactly once with that reference string; never when an embedded
\* schema is present or the reference string is empty.
C6_ResolverInvocations ==
    last.op = "schemaResolve" =>
        /\ Len(last.invoked) <= 1
        /\ Len(last.invoked) = 1 <=>
              /\ ConfiguredResolver(last.p) # Nil
              /\ last.schemaRef.Value = Nil
              /\ last.schemaRef.Ref # ""
        /\ \A i \in 1 .. Len(last.invoked) :
              /\ last.invoked[i].f = ConfiguredResolver(last.p)
              /\ last.invoked[i].arg = last.schemaRef.Ref

\* A configured resolver that was not consulted: the schema was embedded, or
\* the reference string was empty.
C6_Witness ==
    /\ last.op = "schemaResolve"
    /\ ConfiguredResolver(last.p) = "resolveAny"
    /\ last.invoked = <<>>
    /\ \/ last.schemaRef = [Value |-> "InlineSchema",
                            Ref |-> "#/components/schemas/Pet"]
       \/ last.schemaRef = [Value |-> Nil, Ref |-> ""]

\* C7: formatting an error yields the default message when no customizer is
\* configured or the customizer returns the empty string for that error, and
\* the customizer's string whenever that string is non-empty.
C7_FormatFallback ==
    last.op = "formatError" =>
        last.value =
            IF ConfiguredCustomizer(last.p) = Nil
            THEN DefaultMessage(last.err)
            ELSE IF CallCustomizer(ConfiguredCustomizer(last.p), last.err) = ""
                 THEN DefaultMessage(last.err)
                 ELSE CallCustomizer(ConfiguredCustomizer(last.p), last.err)

\* The customizer returned "" for this error, so the default was rendered.
C7_Witness ==
    /\ last.op = "formatError"
    /\ ConfiguredCustomizer(last.p) = "customSome"
    /\ last.err = "errRequired"
    /\ last.value = "default: required"

\* ------------------------------------------------- notify defaults applied
\* C1: when several callers concurrently invoke "notify defaults applied" on
\* one instance that has a callback configured, the callback executes exactly
\* once in every interleaving: never twice, and not zero times once any of
\* the callers has returned.
C1_ExactlyOnce ==
    \A p \in alive :
        ConfiguredCallback(p) # Nil =>
            /\ Len(runs[p]) <= 1
            /\ finished[p] >= 1 => runs[p] = <<ConfiguredCallback(p)>>

\* Two callers inside the same instance's notification at once: one has
\* executed the callback and not yet left, the other has passed the fast path.
C1_Witness ==
    \E t, u \in Threads :
        /\ t # u
        /\ cur[t] = cur[u]
        /\ pc[t] = "unlock"
        /\ pc[u] = "doSlowLock"
        /\ Len(runs[cur[t]]) = 1

\* C2: the fired latch belongs to one instance and is never reset. Once an
\* instance's latch is set it stays set and its callback does not run again;
\* a callback runs only as the first and only run of its instance; and every
\* invocation that returns on an instance with a callback finds that
\* instance's own latch set and its callback run once, whatever happened on
\* the other instance.
C2_LatchPerInstance ==
    [][\A p \in alive :
         /\ once[p].done => once'[p].done /\ runs'[p] = runs[p]
         /\ runs'[p] # runs[p] =>
              /\ runs[p] = <<>>
              /\ runs'[p] = <<ConfiguredCallback(p)>>
         /\ (finished'[p] > finished[p] /\ ConfiguredCallback(p) # Nil) =>
              /\ once'[p].done
              /\ Len(runs'[p]) = 1]_vars

\* One instance notified twice and a separately constructed one notified
\* once: each has fired its own callback once.
C2_Witness ==
    /\ finished["p"] = 2
    /\ finished["q"] = 1
    /\ once["p"].done
    /\ once["q"].done
    /\ Len(runs["p"]) = 1
    /\ Len(runs["q"]) = 1

\* C9: after construction no consumption operation, in any number and
\* interleaving, changes a policy field; the only state that changes is the
\* defaults-applied latch, which moves only from not fired to fired.
C9_ReadOnlyAfterConstruction ==
    [][/\ policy' = policy
       /\ args' = args
       /\ alive' = alive
       /\ \A p \in Policies : once[p].done => once'[p].done]_vars

\* All three operations have been used on an instance whose latch has fired.
C9_Witness ==
    \E p \in alive :
        /\ once[p].done
        /\ finished[p] >= 2
        /\ last.p = p
        /\ last.op = "formatError"
        /\ Len(last.invoked) = 1
        /\ policy[p].customizeSchemaResolve # Nil
        /\ policy[p].failfast

\* C10 as stated: no caller of "notify defaults applied" ever has to wait
\* for another concurrent caller.
C10_NoCallerWaits == \A t \in Threads : ~Waiting(t)

\* C10 amended: schemaResolve and error formatting never wait, and every step
\* of a notification can be taken at once except o.m.Lock(), which waits only
\* while another caller of the same instance is inside the guarded section of
\* Once.doSlow (checking the latch, executing the callback, storing the latch
\* or about to unlock).
C10_WaitsOnlyForGuardHolder ==
    /\ \A p \in alive, schemaRef \in SchemaRefs :
         ENABLED SchemaResolve(p, schemaRef)
    /\ \A p \in alive, err \in SchemaErrors : ENABLED FormatErrorMessage(p, err)
    /\ \A t \in Threads :
         /\ pc[t] = "Do" => ENABLED OnceDo(t)
         /\ pc[t] = "doSlowCheck" => ENABLED OnceCheck(t)
         /\ pc[t] = "callF" => ENABLED OnceCallF(t)
         /\ pc[t] = "store" => ENABLED OnceStore(t)
         /\ pc[t] = "unlock" => ENABLED OnceUnlock(t)
         /\ pc[t] = "doSlowLock" => Waiting(t) \/ ENABLED OnceLock(t)
         /\ Waiting(t) =>
              \E u \in Threads \ {t} :
                  /\ once[OnceOf(cur[t])].m = u
                  /\ InGuard(u)
                  /\ cur[u] = cur[t]

\* A caller waits in o.m.Lock() while another is executing the callback.
C10_Witness ==
    \E t, u \in Threads :
        /\ Waiting(t)
        /\ pc[u] = "callF"
        /\ cur[u] = cur[t]
        /\ runs[cur[t]] = <<>>

====
